---- MODULE Spec2Model ----
(***************************************************************************)
(* Model of router/codesearch.py: the CodeSearch session (line buffer,     *)
(* opcode dispatch, result collation), the backend supervisor and the      *)
(* search() facade.                                                        *)
(*                                                                         *)
(* The wire is a stream of characters.  A record is the text before a      *)
(* newline.  The JSON text of a record is abstracted to one letter:        *)
(*   "r" ready, "e" error, "d" done, "t" done with why = timeout,          *)
(*   "u" an opcode the client does not know, "a" / "b" two match records.  *)
(* Every other line (the empty line, a line of several letters) is text    *)
(* json.loads rejects.                                                     *)
(***************************************************************************)
EXTENDS Integers, Sequences, FiniteSets, TLC

VARIABLES
    pc,         \* position of the caller inside search() (lines 109-122)
    attempt,    \* number of CodeSearch(...) constructions started so far
    outcome,    \* how search() ended: "none" | "return" | "raise"
    exc,        \* the exception in flight or escaped, "none" if none
    result,     \* the value search() returns
    state,      \* CodeSearch.state
    buffer,     \* CodeSearch.buffer
    matches,    \* CodeSearch.matches
    query,      \* CodeSearch.query: "unset" before line 19, then "None" or the query line
    connected,  \* the attempts whose sock.connect succeeded
    closes,     \* per attempt, the number of CodeSearch.close() calls
    sockErr,    \* the attempts whose constructor raised socket.error
    eof,        \* a recv on the current socket has returned the empty string
    path,       \* startup_codesearch's lookup of CODESEARCH, "unread" before it
    forks,      \* number of daemonize() calls whose first fork succeeded
    slept,      \* time spent in time.sleep
    child,      \* per process forked under daemonize: the line it is at, or how it ended
    ppid,       \* per such process: its parent process
    pair,       \* two CodeSearch objects used side by side: per object, its attributes
    arg,        \* the argument of the last collateMatches call
    window,     \* history: what was dispatched between the query being sent and its ready
    logging,    \* history switch: fed / emitted are recorded (and bounded)
    fed,        \* history: concatenation of every recv of the current session
    emitted,    \* history: the lines handed to handle_line by the current session
    sentAt      \* history: Len(emitted) when the query was sent

vars == <<pc, attempt, outcome, exc, result, state, buffer, matches, query,
          connected, closes, sockErr, eof, path, forks, slept, child, ppid, pair, arg, window,
          logging, fed, emitted, sentAt>>

facade == <<pc, attempt, outcome, exc, result>>
session == <<state, buffer, matches, query>>
sockets == <<connected, closes, sockErr, eof>>
processes == <<child, ppid>>
supervisor == <<path, forks, slept, processes>>
history == <<window, logging, fed, emitted, sentAt>>

-----------------------------------------------------------------------------
(* Bounds of the model *)

MaxChunk == 3       \* characters returned by one recv while logging
MaxRecs == 2        \* whole records returned by one recv otherwise
MaxMatches == 2     \* length of the match accumulator
MaxWindow == 3      \* length of the window history
MaxFed == 4         \* characters received by a session while logging
MaxPair == 3        \* recv calls of each of two sessions side by side
MaxInput == 3       \* length of the inputs of collateMatches in SpecCollate

(* Program constants *)

WarmUp == 5         \* time.sleep(5)

NL == "\n"
Letters == {"r", "e", "d", "t", "u", "a", "b"}
Alphabet == Letters \cup {NL}

SeqsUpTo(S, n) == UNION {[1..k -> S] : k \in 0..n}

(* What one recv may return.  While logging (short conversations): any     *)
(* text of up to MaxChunk characters, split anywhere.  Otherwise (long     *)
(* conversations): up to MaxRecs newline-terminated lines.                 *)
WireLines == {<<c, NL>> : c \in Letters} \cup {<<NL>>}

RECURSIVE Concat(_)
Concat(ls) == IF ls = <<>> THEN <<>> ELSE Head(ls) \o Concat(Tail(ls))

Min(x, y) == IF x <= y THEN x ELSE y

CharChunks(room) == SeqsUpTo(Alphabet, Min(MaxChunk, room)) \ {<<>>}

RecordChunks ==
    {Concat(ls) : ls \in SeqsUpTo(WireLines, MaxRecs) \ {<<>>}}

Chunks(log, room) == IF log THEN CharChunks(room) ELSE RecordChunks

-----------------------------------------------------------------------------
(* json.loads(line) followed by the reads of j['opcode'] and j['body'] *)

MatchBody(p, n) == [path |-> p, lno |-> n, bounds |-> <<0, 1>>, line |-> "x"]

WellFormed(line) == Len(line) = 1 /\ line[1] \in Letters

Decode(line) ==
    CASE line = <<"r">> -> [opcode |-> "ready", body |-> [why |-> "none"]]
      [] line = <<"e">> -> [opcode |-> "error", body |-> [why |-> "none"]]
      [] line = <<"d">> -> [opcode |-> "done", body |-> [why |-> "none"]]
      [] line = <<"t">> -> [opcode |-> "done", body |-> [why |-> "timeout"]]
      [] line = <<"u">> -> [opcode |-> "bogus", body |-> [why |-> "none"]]
      [] line = <<"a">> -> [opcode |-> "match", body |-> MatchBody("a", 1)]
      [] line = <<"b">> -> [opcode |-> "match", body |-> MatchBody("b", 2)]

(* The session as handle_input and handle_line see it.  exc is the         *)
(* exception the call raised, trace the lines it handed to handle_line.    *)
(* query is "unset" while __init__ has not reached line 19: the object     *)
(* has no attribute query yet.                                             *)
Sess(st, buf, ms, q) ==
    [state |-> st, buffer |-> buf, matches |-> ms, query |-> q,
     exc |-> "none", trace |-> <<>>]

(* Faulty variant: an error record also ends the wait. *)
HandleLine_ErrorReady(s, line) ==
    LET t == [s EXCEPT !.trace = Append(@, line)] IN
    IF ~WellFormed(line) THEN [t EXCEPT !.exc = "ValueError"]
    ELSE LET j == Decode(line) IN
         CASE j.opcode = "match" -> [t EXCEPT !.matches = Append(@, j.body)]
           [] j.opcode = "ready" -> [t EXCEPT !.state = "ready"]
           [] j.opcode = "done"  -> t
           [] j.opcode = "error" -> [t EXCEPT !.matches = <<>>, !.state = "ready"]
           [] OTHER              -> [t EXCEPT !.exc = "BaseException"]

(* line 71: print 'Timeout', self.query *)
PrintTimeout(t) ==
    IF t.query = "unset" THEN [t EXCEPT !.exc = "AttributeError"] ELSE t

(* Faulty variant: an opcode the client does not know is printed and skipped. *)
HandleLine_Ignore(s, line) ==
    LET t == [s EXCEPT !.trace = Append(@, line)] IN
    IF ~WellFormed(line) THEN [t EXCEPT !.exc = "ValueError"]
    ELSE LET j == Decode(line) IN
         CASE j.opcode = "match" -> [t EXCEPT !.matches = Append(@, j.body)]
           [] j.opcode = "ready" -> [t EXCEPT !.state = "ready"]
           [] j.opcode = "done"  -> IF j.body.why = "timeout" THEN PrintTimeout(t) ELSE t
           [] j.opcode = "error" -> [t EXCEPT !.matches = <<>>]
           [] OTHER              -> t

HandleLine(s, line) ==
    LET t == [s EXCEPT !.trace = Append(@, line)] IN
    IF ~WellFormed(line) THEN [t EXCEPT !.exc = "ValueError"]
    ELSE LET j == Decode(line) IN
         CASE j.opcode = "match" -> [t EXCEPT !.matches = Append(@, j.body)]
           [] j.opcode = "ready" -> [t EXCEPT !.state = "ready"]
           [] j.opcode = "done"  -> IF j.body.why = "timeout" THEN PrintTimeout(t) ELSE t
           [] j.opcode = "error" -> [t EXCEPT !.matches = <<>>]
           [] OTHER              -> [t EXCEPT !.exc = "BaseException"]

(* Faulty variant: rindex instead of index. *)
IndexNL_Last(buf) ==
    IF \E i \in 1..Len(buf) : buf[i] = NL
    THEN CHOOSE i \in 1..Len(buf) : buf[i] = NL /\ \A k \in (i + 1)..Len(buf) : buf[k] # NL
    ELSE 0

(* buffer.index('\n'), 1-based; 0 when there is no newline (pos = -1) *)
IndexNL(buf) ==
    IF \E i \in 1..Len(buf) : buf[i] = NL
    THEN CHOOSE i \in 1..Len(buf) : buf[i] = NL /\ \A k \in 1..(i - 1) : buf[k] # NL
    ELSE 0

(* Faulty variant: draining stops once a ready record was dispatched. *)
RECURSIVE HandleInput_StopAtReady(_)
HandleInput_StopAtReady(s) ==
    LET pos == IndexNL(s.buffer) IN
    IF pos = 0 THEN s
    ELSE LET line == SubSeq(s.buffer, 1, pos - 1)
             cut == [s EXCEPT !.buffer = SubSeq(s.buffer, pos + 1, Len(s.buffer))]
             after == HandleLine(cut, line)
         IN IF after.exc # "none" \/ after.state = "ready" THEN after
            ELSE HandleInput_StopAtReady(after)

RECURSIVE HandleInput(_)
HandleInput(s) ==
    LET pos == IndexNL(s.buffer) IN
    IF pos = 0 THEN s
    ELSE LET line == SubSeq(s.buffer, 1, pos - 1)
             cut == [s EXCEPT !.buffer = SubSeq(s.buffer, pos + 1, Len(s.buffer))]
             after == HandleLine(cut, line)
         IN IF after.exc # "none" THEN after ELSE HandleInput(after)

-----------------------------------------------------------------------------
(* collateMatches: paths is a dict, and the result lists its keys in the   *)
(* dict's iteration order, which this Python does not tie to insertion.    *)

PathsOf(ms) == {ms[i].path : i \in 1..Len(ms)}

LineOf(m) == [lno |-> m.lno, bounds |-> m.bounds, line |-> m.line]

RECURSIVE LinesOf(_, _)
LinesOf(ms, p) ==
    IF ms = <<>> THEN <<>>
    ELSE IF Head(ms).path = p
         THEN <<LineOf(Head(ms))>> \o LinesOf(Tail(ms), p)
         ELSE LinesOf(Tail(ms), p)

Entry(ms, p) == [path |-> p, icon |-> "", lines |-> LinesOf(ms, p)]

KeyOrders(S) ==
    {f \in [1..Cardinality(S) -> S] : \A i, k \in 1..Cardinality(S) : f[i] = f[k] => i = k}

CollateMatches(ms) ==
    {[i \in 1..Cardinality(PathsOf(ms)) |-> Entry(ms, f[i])] : f \in KeyOrders(PathsOf(ms))}

-----------------------------------------------------------------------------
(* The state before search() is called *)

NoSession ==
    /\ state = "none" /\ buffer = <<>> /\ matches = <<>> /\ query = "unset"
    /\ connected = {} /\ closes = [n \in 1..2 |-> 0] /\ sockErr = {} /\ eof = FALSE

(* the processes daemonize creates: c1 by the fork of line 80, c2 by the    *)
(* fork of line 86 (in c1), c3 by the fork of line 90 (in c2)              *)
Procs == {"c1", "c2", "c3"}

NoProcesses ==
    /\ child = [p \in Procs |-> "none"]
    /\ ppid = [p \in Procs |-> "none"]

(* a CodeSearch object before its constructor has run; log is the history *)
(* of what the object did and received                                    *)
Fresh ==
    [pc |-> "start", state |-> "none", buffer |-> <<>>, matches |-> <<>>,
     query |-> "unset", exc |-> "none", arg |-> <<>>, log |-> <<>>]

InitCommon ==
    /\ pc = "start" /\ attempt = 0 /\ outcome = "none" /\ exc = "none" /\ result = <<>>
    /\ NoSession
    /\ path = "unread" /\ forks = 0 /\ slept = 0
    /\ NoProcesses
    /\ pair = [i \in 1..2 |-> Fresh]
    /\ arg = <<>>
    /\ window = <<>> /\ fed = <<>> /\ emitted = <<>> /\ sentAt = 0

Init == InitCommon /\ logging = FALSE

InitLog == InitCommon /\ logging = TRUE

-----------------------------------------------------------------------------
(* How control leaves a failing call inside search() *)

(* line 112: the first constructor raised socket.error *)
FirstHandler ==
    /\ pc' = "except" /\ outcome' = outcome /\ exc' = "none" /\ result' = result

(* Faulty variant: the second handler lets the error through. *)
RetryHandler_Raise ==
    /\ pc' = "done" /\ outcome' = "raise" /\ exc' = "socket.error" /\ result' = result

(* lines 116-117: the second constructor raised socket.error *)
RetryHandler ==
    /\ pc' = "done" /\ outcome' = "return" /\ exc' = "none" /\ result' = <<>>

(* an exception no handler of search() catches leaves search() *)
Escape(kind) ==
    /\ pc' = "done" /\ outcome' = "raise" /\ exc' = kind /\ result' = result

(* Faulty variant: every socket.error of a constructor starts the backend   *)
(* and connects again.                                                     *)
OpenFailed_Again(n, kind) ==
    IF kind = "socket.error"
    THEN /\ sockErr' = sockErr \cup {n}
         /\ FirstHandler
    ELSE /\ sockErr' = sockErr
         /\ Escape(kind)

(* CodeSearch(...) number n raised kind (lines 110-117) *)
OpenFailed(n, kind) ==
    IF kind = "socket.error"
    THEN /\ sockErr' = sockErr \cup {n}
         /\ IF n = 1 THEN FirstHandler ELSE RetryHandler
    ELSE /\ sockErr' = sockErr
         /\ Escape(kind)

(* Faulty variant: no try/finally around codesearch.search. *)
SearchFailed_NoFinally(kind) ==
    /\ pc' = "done" /\ outcome' = "raise" /\ exc' = kind /\ result' = result

(* codesearch.search raised kind inside the try of lines 119-122 *)
SearchFailed(kind) ==
    /\ pc' = "finally" /\ outcome' = "raise" /\ exc' = kind /\ result' = result

-----------------------------------------------------------------------------
(* History bookkeeping *)

RECURSIVE BeforeReady(_)
BeforeReady(trace) ==
    IF trace = <<>> \/ Head(trace) = <<"r">> THEN <<>>
    ELSE <<Head(trace)>> \o BeforeReady(Tail(trace))

RECURSIVE WindowEvents(_)
WindowEvents(trace) ==
    IF trace = <<>> THEN <<>>
    ELSE IF Head(trace) \in {<<"a">>, <<"b">>, <<"e">>}
         THEN <<Head(trace)[1]>> \o WindowEvents(Tail(trace))
         ELSE WindowEvents(Tail(trace))

Record(chunk, trace) ==
    /\ fed' = IF logging THEN fed \o chunk ELSE fed
    /\ emitted' = IF logging THEN emitted \o trace ELSE emitted
    /\ UNCHANGED <<logging, sentAt>>

-----------------------------------------------------------------------------
(* CodeSearch.__init__, lines 13-17 *)

Connect ==
    /\ pc \in {"start", "retry"}
    /\ attempt' = attempt + 1
    /\ connected' = connected \cup {attempt + 1}
    /\ state' = "init" /\ buffer' = <<>> /\ matches' = <<>> /\ query' = "unset"
    /\ eof' = FALSE
    /\ pc' = "open"
    /\ window' = <<>> /\ fed' = <<>> /\ emitted' = <<>> /\ sentAt' = 0
    /\ UNCHANGED <<outcome, exc, result, closes, sockErr, supervisor, pair, arg, logging>>

(* sock.connect raises socket.error (line 14) *)
ConnectRefused ==
    /\ pc \in {"start", "retry"}
    /\ attempt' = attempt + 1
    /\ OpenFailed(attempt + 1, "socket.error")
    /\ UNCHANGED <<session, connected, closes, eof, supervisor, pair, arg, history>>

(* One iteration of wait_ready's loop (lines 46-49): recv returned chunk. *)
Feed(chunk) == HandleInput(Sess(state, buffer \o chunk, matches, query))

Kept(s) == s.exc = "none" => Len(s.matches) <= MaxMatches

(* wait_ready called from __init__ (line 18); line 19 when it returns *)
OpenRecv ==
    /\ pc = "open" /\ ~eof
    /\ \E chunk \in Chunks(logging, MaxFed - Len(fed)) :
         LET s == Feed(chunk) IN
         /\ Kept(s)
         /\ Record(chunk, s.trace)
         /\ state' = s.state /\ buffer' = s.buffer /\ matches' = s.matches
         /\ IF s.exc # "none"
            THEN OpenFailed(attempt, s.exc) /\ query' = query
            ELSE /\ IF s.state = "ready"
                    THEN pc' = "opened" /\ query' = "None"
                    ELSE pc' = "open" /\ query' = query
                 /\ UNCHANGED <<outcome, exc, result, sockErr>>
    /\ UNCHANGED <<attempt, connected, closes, eof, supervisor, pair, arg, window>>

(* recv raises socket.error inside __init__ *)
OpenRecvError ==
    /\ pc = "open" /\ ~eof
    /\ OpenFailed(attempt, "socket.error")
    /\ UNCHANGED <<attempt, session, connected, closes, eof, supervisor, pair, arg, history>>

(* recv returns '' (the peer shut the connection down): buffer += '' and   *)
(* handle_input finds no newline; the loop of line 46 goes round again.    *)
RecvEOF ==
    /\ pc \in {"open", "wait"}
    /\ LET s == Feed(<<>>) IN
         state' = s.state /\ buffer' = s.buffer /\ matches' = s.matches
    /\ eof' = TRUE
    /\ UNCHANGED <<facade, query, connected, closes, sockErr, supervisor, pair, arg, history>>

-----------------------------------------------------------------------------
(* CodeSearch.search, lines 35-43, called at line 120 *)

QueryLine == "q"

Send ==
    /\ pc = "opened"
    /\ query' = QueryLine /\ state' = "search"
    /\ pc' = "wait"
    /\ window' = <<>> /\ sentAt' = Len(emitted)
    /\ UNCHANGED <<attempt, outcome, exc, result, buffer, matches, sockets,
                   supervisor, pair, arg, logging, fed, emitted>>

(* sendall raises socket.error (line 39) *)
SendError ==
    /\ pc = "opened"
    /\ query' = QueryLine /\ state' = "search"
    /\ SearchFailed("socket.error")
    /\ UNCHANGED <<attempt, buffer, matches, sockets, supervisor, pair, arg, history>>

(* wait_ready called from search (line 40) *)
SearchRecv ==
    /\ pc = "wait" /\ ~eof
    /\ \E chunk \in Chunks(logging, MaxFed - Len(fed)) :
         LET s == Feed(chunk) IN
         /\ Kept(s)
         /\ Record(chunk, s.trace)
         /\ window' = window \o WindowEvents(BeforeReady(s.trace))
         /\ Len(window') <= MaxWindow
         /\ state' = s.state /\ buffer' = s.buffer /\ matches' = s.matches
         /\ IF s.exc # "none"
            THEN SearchFailed(s.exc)
            ELSE /\ pc' = IF s.state = "ready" THEN "return" ELSE "wait"
                 /\ UNCHANGED <<outcome, exc, result>>
    /\ UNCHANGED <<attempt, query, sockets, supervisor, pair, arg>>

(* recv raises socket.error inside search *)
SearchRecvError ==
    /\ pc = "wait" /\ ~eof
    /\ SearchFailed("socket.error")
    /\ UNCHANGED <<attempt, session, sockets, supervisor, pair, arg, history>>

(* lines 41-43 *)
SearchReturn ==
    /\ pc = "return"
    /\ arg' = matches
    /\ result' \in CollateMatches(matches)
    /\ matches' = <<>>
    /\ pc' = "finally" /\ outcome' = "return"
    /\ UNCHANGED <<attempt, exc, state, buffer, query, sockets, supervisor, pair, history>>

(* lines 121-122, then the return value or the exception reaches the caller *)
Close ==
    /\ pc = "finally"
    /\ closes' = [closes EXCEPT ![attempt] = @ + 1]
    /\ pc' = "done"
    /\ UNCHANGED <<attempt, outcome, exc, result, session, connected, sockErr, eof,
                   supervisor, pair, arg, history>>

-----------------------------------------------------------------------------
(* startup_codesearch, lines 97-107, called at line 113 *)

(* os.environ['CODESEARCH'] with the variable absent raises KeyError *)
StartupNoEnv ==
    /\ pc = "except"
    /\ path' = "absent"
    /\ Escape("KeyError")
    /\ UNCHANGED <<attempt, session, sockets, forks, slept, processes, pair, arg, history>>

(* the variable is set to the empty string: lines 99-100 *)
StartupEmpty ==
    /\ pc = "except"
    /\ path' = ""
    /\ pc' = "retry"
    /\ UNCHANGED <<attempt, outcome, exc, result, session, sockets, forks, slept,
                   processes, pair, arg, history>>

(* daemonize(args) returns in the caller (lines 80-83), then time.sleep(5); *)
(* the fork of line 80 has created c1, which goes on at line 86            *)
StartupSpawn ==
    /\ pc = "except"
    /\ path' = "codesearch"
    /\ forks' = forks + 1
    /\ slept' = slept + WarmUp
    /\ child' = [child EXCEPT !["c1"] = "l86"]
    /\ ppid' = [ppid EXCEPT !["c1"] = "caller"]
    /\ pc' = "retry"
    /\ UNCHANGED <<attempt, outcome, exc, result, session, sockets, pair, arg, history>>

(* os.fork raises OSError in the caller (line 80) *)
StartupForkError ==
    /\ pc = "except"
    /\ path' = "codesearch"
    /\ Escape("OSError")
    /\ UNCHANGED <<attempt, session, sockets, forks, slept, processes, pair, arg, history>>

-----------------------------------------------------------------------------
(* daemonize in the forked processes, lines 85-95 *)

caller == <<facade, session, sockets, path, forks, slept, pair, arg, history>>

ForkLine == [c1 |-> "l86", c2 |-> "l90"]
ExitLine == [c1 |-> "l88", c2 |-> "l92"]
Forked == [c1 |-> "c2", c2 |-> "c3"]
FirstLine == [c2 |-> "l90", c3 |-> "l94"]

(* os.fork succeeds in c1 (line 86) or c2 (line 90): the new process goes  *)
(* on below the test of pid, the forking one is about to call os._exit     *)
ChildFork ==
    /\ \E p \in {"c1", "c2"} :
         /\ child[p] = ForkLine[p]
         /\ child' = [child EXCEPT ![p] = ExitLine[p], ![Forked[p]] = FirstLine[Forked[p]]]
         /\ ppid' = [ppid EXCEPT ![Forked[p]] = p]
    /\ UNCHANGED caller

(* os.fork raises OSError in c1 or c2: nothing in daemonize,               *)
(* startup_codesearch or search catches it, the process leaves search()    *)
(* with the exception                                                      *)
ChildForkError ==
    /\ \E p \in {"c1", "c2"} :
         /\ child[p] = ForkLine[p]
         /\ child' = [child EXCEPT ![p] = "raised"]
    /\ UNCHANGED <<caller, ppid>>

(* os._exit(0), lines 88 and 92: the children of the process are orphaned *)
ChildExit ==
    /\ \E p \in {"c1", "c2"} :
         /\ child[p] = ExitLine[p]
         /\ child' = [child EXCEPT ![p] = "exited"]
         /\ ppid' = [q \in Procs |-> IF ppid[q] = p THEN "init" ELSE ppid[q]]
    /\ UNCHANGED caller

(* line 94 *)
ChildPrint ==
    /\ child["c3"] = "l94"
    /\ child' = [child EXCEPT !["c3"] = "l95"]
    /\ UNCHANGED <<caller, ppid>>

(* os.execv succeeds (line 95): the process is the backend *)
ChildExec ==
    /\ child["c3"] = "l95"
    /\ child' = [child EXCEPT !["c3"] = "backend"]
    /\ UNCHANGED <<caller, ppid>>

(* os.execv raises OSError (line 95): the process leaves search() with the *)
(* exception, as a copy of the caller                                      *)
ChildExecError ==
    /\ child["c3"] = "l95"
    /\ child' = [child EXCEPT !["c3"] = "raised"]
    /\ UNCHANGED <<caller, ppid>>

-----------------------------------------------------------------------------

Next ==
    \/ Connect \/ ConnectRefused
    \/ OpenRecv \/ OpenRecvError \/ RecvEOF
    \/ Send \/ SendError
    \/ SearchRecv \/ SearchRecvError \/ SearchReturn
    \/ Close
    \/ StartupNoEnv \/ StartupEmpty \/ StartupSpawn \/ StartupForkError

Spec == Init /\ [][Next]_vars

SpecLog == InitLog /\ [][Next]_vars

-----------------------------------------------------------------------------
(* collateMatches alone: the accumulator holds any list of matches when    *)
(* wait_ready returns at line 40, and lines 41-43 run.                     *)

AnyMatches == {MatchBody(p, n) : p \in {"a", "b"}, n \in 1..2}

InitCollate ==
    /\ pc = "return" /\ attempt = 1 /\ outcome = "none" /\ exc = "none" /\ result = <<>>
    /\ state = "ready" /\ buffer = <<>> /\ query = QueryLine
    /\ matches \in SeqsUpTo(AnyMatches, MaxInput)
    /\ connected = {1} /\ closes = [n \in 1..2 |-> 0] /\ sockErr = {} /\ eof = FALSE
    /\ path = "unread" /\ forks = 0 /\ slept = 0
    /\ NoProcesses
    /\ pair = [i \in 1..2 |-> Fresh]
    /\ arg = <<>>
    /\ window = <<>> /\ fed = <<>> /\ emitted = <<>> /\ sentAt = 0 /\ logging = FALSE

NextCollate == SearchReturn

-----------------------------------------------------------------------------
(* Two CodeSearch objects side by side.  The methods are written over one  *)
(* object's attributes r; every attribute is an instance attribute         *)
(* (self.state, self.buffer, self.matches, self.query, lines 15-19).       *)

(* records one recv may return to an object of the pair *)
PairLetters == {"r", "a", "e", "u"}

(* __init__, lines 15-17 *)
SessOpen(r) ==
    [r EXCEPT !.pc = "open", !.state = "init", !.buffer = <<>>, !.matches = <<>>]

(* one turn of wait_ready's loop (lines 46-49), and what follows its return *)
(* in __init__ (line 19) or in search (line 41)                            *)
SessRecv(r, chunk) ==
    LET s == HandleInput(Sess(r.state, r.buffer \o chunk, r.matches, r.query)) IN
    [r EXCEPT !.state = s.state, !.buffer = s.buffer, !.matches = s.matches,
              !.exc = s.exc,
              !.query = IF s.exc = "none" /\ s.state = "ready" /\ r.pc = "open"
                        THEN "None" ELSE @,
              !.pc = IF s.exc # "none" THEN "done"
                     ELSE IF s.state # "ready" THEN @
                     ELSE IF r.pc = "open" THEN "opened" ELSE "return"]

(* search, lines 36-39 *)
SessSend(r) ==
    [r EXCEPT !.query = QueryLine, !.state = "search", !.pc = "wait"]

(* search, lines 41-43: arg is the argument of collateMatches *)
SessReturn(r) ==
    [r EXCEPT !.arg = r.matches, !.matches = <<>>, !.pc = "done"]

Event(k, d) == [kind |-> k, data |-> d]

Logged(r, ev) == [r EXCEPT !.log = Append(@, ev)]

Recvs(log) == Cardinality({n \in 1..Len(log) : log[n].kind = "recv"})

(* Faulty variant: matches is one list shared by the objects (an attribute *)
(* of the class that the methods mutate in place).                         *)
Own_Shared(i, r) ==
    [j \in 1..2 |-> IF j = i THEN r ELSE [pair[j] EXCEPT !.matches = r.matches]]

(* the attributes written through self belong to object i alone *)
Own(i, r) == [pair EXCEPT ![i] = r]

Others == <<facade, session, sockets, supervisor, arg, history>>

PairConnect ==
    /\ \E i \in 1..2 :
         /\ pair[i].pc = "start"
         /\ pair' = Own(i, Logged(SessOpen(pair[i]), Event("connect", <<>>)))
    /\ UNCHANGED Others

PairRecv ==
    /\ \E i \in 1..2, c \in PairLetters :
         /\ pair[i].pc \in {"open", "wait"}
         /\ Recvs(pair[i].log) < MaxPair
         /\ pair' = Own(i, Logged(SessRecv(pair[i], <<c, NL>>), Event("recv", <<c, NL>>)))
    /\ UNCHANGED Others

PairSend ==
    /\ \E i \in 1..2 :
         /\ pair[i].pc = "opened"
         /\ pair' = Own(i, Logged(SessSend(pair[i]), Event("send", <<>>)))
    /\ UNCHANGED Others

PairReturn ==
    /\ \E i \in 1..2 :
         /\ pair[i].pc = "return"
         /\ pair' = Own(i, Logged(SessReturn(pair[i]), Event("return", <<>>)))
    /\ UNCHANGED Others

NextPair == PairConnect \/ PairRecv \/ PairSend \/ PairReturn

(* search() up to the session being established (lines 110-117), with the  *)
(* processes of daemonize running beside the caller                        *)
NextDaemon ==
    \/ Connect \/ ConnectRefused
    \/ OpenRecv \/ OpenRecvError \/ RecvEOF
    \/ StartupNoEnv \/ StartupEmpty \/ StartupSpawn \/ StartupForkError
    \/ ChildFork \/ ChildForkError \/ ChildExit
    \/ ChildPrint \/ ChildExec \/ ChildExecError

SpecDaemon == Init /\ [][NextDaemon]_vars

SpecPair == Init /\ [][NextPair]_vars

SpecCollate == InitCollate /\ [][NextCollate]_vars

-----------------------------------------------------------------------------
(* Definitions the properties share *)

Ended == pc = "done"

Searched == query = QueryLine

Count(seq, x) == Cardinality({i \in 1..Len(seq) : seq[i] = x})

BodyOf(c) == Decode(<<c>>).body

(* the match bodies among the events of the window, in order *)
RECURSIVE WindowMatches(_)
WindowMatches(w) ==
    IF w = <<>> THEN <<>>
    ELSE IF Head(w) = "e" THEN WindowMatches(Tail(w))
         ELSE <<BodyOf(Head(w))>> \o WindowMatches(Tail(w))

(* the events of the window after its last error *)
RECURSIVE AfterLastError(_)
AfterLastError(w) ==
    IF \E i \in 1..Len(w) : w[i] = "e" THEN AfterLastError(Tail(w)) ELSE w

(* newline-delimited records of a text, by the positions of its newlines *)
NLs(t) == {i \in 1..Len(t) : t[i] = NL}

NthNL(t, n) ==
    IF n = 0 THEN 0
    ELSE CHOOSE i \in NLs(t) : Cardinality({k \in NLs(t) : k <= i}) = n

Records(t) ==
    [n \in 1..Cardinality(NLs(t)) |-> SubSeq(t, NthNL(t, n - 1) + 1, NthNL(t, n) - 1)]

AfterNL(t, n) == SubSeq(t, NthNL(t, n) + 1, Len(t))

DispatchErrors == {"ValueError", "BaseException", "AttributeError"}

UnknownDispatched == \E i \in 1..Len(emitted) : emitted[i] = <<"u">>

ReadySinceSend == \E i \in (sentAt + 1)..Len(emitted) : emitted[i] = <<"r">>

(* paths in order of first appearance *)
RECURSIVE FirstSeen(_, _)
FirstSeen(ms, seen) ==
    IF ms = <<>> THEN <<>>
    ELSE IF Head(ms).path \in seen THEN FirstSeen(Tail(ms), seen)
         ELSE <<Head(ms).path>> \o FirstSeen(Tail(ms), seen \cup {Head(ms).path})

-----------------------------------------------------------------------------
(* C1: when both the first construction and the retry raise socket.error,  *)
(* search() returns the empty list and no exception reaches the caller.    *)
C1_BothFailReturnEmpty ==
    (Ended /\ sockErr = {1, 2}) =>
        (outcome = "return" /\ result = <<>> /\ exc = "none")

C1_Witness == Ended /\ sockErr = {1, 2} /\ connected = {2}

(* C2: with CODESEARCH absent, startup_codesearch spawns nothing and       *)
(* returns normally, so search() goes on to its second connect.            *)
C2_AbsentIsNoOp ==
    path = "absent" =>
        (forks = 0 /\ outcome # "raise" /\ (pc = "retry" \/ attempt = 2))

(* C3: once Session.search has been entered, close() has run exactly once  *)
(* when search() ends, on every way out, and not before: the result or the *)
(* failure reaches the caller only after close().                          *)
C3_CloseOnce ==
    Searched => closes[attempt] = (IF Ended THEN 1 ELSE 0)

C3_Witness ==
    Ended /\ Searched /\ outcome = "raise" /\ exc = "BaseException" /\ closes[attempt] = 1

(* C4: every socket whose connect succeeded has been closed exactly once   *)
(* when search() ends, also when wait_ready fails inside __init__.         *)
C4_ReleasedOnce ==
    Ended => \A n \in connected : closes[n] = 1

(* C5: the matches Session.search returns are match records dispatched     *)
(* after the query was sent and before the ready that ends it.             *)
C5_NoStaleMatches ==
    (Ended /\ Searched /\ outcome = "return") =>
        \A m \in AnyMatches : Count(arg, m) <= Count(WindowMatches(window), m)

(* C6: when an error record arrives during a query, Session.search returns *)
(* exactly the matches after the last error and before the ending ready.   *)
C6_ErrorDiscards ==
    (Ended /\ Searched /\ outcome = "return" /\ \E i \in 1..Len(window) : window[i] = "e") =>
        arg = WindowMatches(AfterLastError(window))

(* C7 as stated: after any reads, the records dispatched are all the       *)
(* newline-delimited records of the text read, and the buffer is the text  *)
(* after the last newline.                                                 *)
C7_AllDispatched ==
    (logging /\ state # "none") =>
        (emitted = Records(fed) /\ buffer = AfterNL(fed, Cardinality(NLs(fed))))

(* C7 amended: the records dispatched are the first records of the text    *)
(* read, in order and with the newline stripped, the buffer is the text    *)
(* after them, and they are all the records unless handle_line raised.     *)
C7_Framing ==
    (logging /\ state # "none") =>
        LET j == Len(emitted)
            k == Cardinality(NLs(fed))
        IN /\ j <= k
           /\ emitted = SubSeq(Records(fed), 1, j)
           /\ buffer = AfterNL(fed, j)
           /\ (exc \notin DispatchErrors => j = k)

C7_Witness ==
    logging /\ exc = "none" /\ Len(emitted) = 1 /\ buffer = <<"r">> /\ pc = "wait"

(* C8: collateMatches returns one entry per path, in order of first        *)
(* appearance, each with its lines in input order and an empty icon.       *)
C8_FirstSeenOrder ==
    pc = "finally" =>
        result = [i \in 1..Len(FirstSeen(arg, {})) |-> Entry(arg, FirstSeen(arg, {})[i])]

(* C9: once recv has returned the empty string before a ready, wait_ready  *)
(* has failed with a connection error and waits no longer.                 *)
C9_EofEndsWait ==
    eof => (pc \notin {"open", "wait"} /\ exc = "socket.error")

(* C10, first part: once a record with an opcode the client does not know  *)
(* has been dispatched, it is the last record dispatched, BaseException    *)
(* is on its way out of search(), and the state is ready only if a ready   *)
(* record was dispatched since the query was sent.                         *)
C10_Aborts ==
    UnknownDispatched =>
        /\ emitted[Len(emitted)] = <<"u">>
        /\ exc = "BaseException" /\ outcome = "raise"
        /\ pc \in {"finally", "done"}
        /\ (~ReadySinceSend => state # "ready")

(* C10, second part: no step taken after it connects again, reads          *)
(* CODESEARCH, forks, or drops the exception.                              *)
C10_NoRetry ==
    exc = "BaseException" =>
        (attempt' = attempt /\ forks' = forks /\ path' = path /\ connected' = connected
         /\ exc' = exc /\ outcome' = outcome)

(* C10: a record with an opcode the client does not know aborts wait_ready *)
(* with an exception that leaves search(), does not make the state ready,  *)
(* and is followed by no respawn and no further connect.                   *)
C10_UnknownOpcodeFatal == [](C10_Aborts) /\ [][C10_NoRetry]_vars

C10_Witness ==
    UnknownDispatched /\ Ended /\ exc = "BaseException" /\ attempt = 1 /\ state = "init"

(* C11: dispatching a done record with why = timeout raises nothing,       *)
(* whether a query has been issued or not.                                 *)
C11_TimeoutNotFatal ==
    (emitted # <<>> /\ emitted[Len(emitted)] = <<"t">>) => exc \notin DispatchErrors


(* C12: a socket.error inside Session.search on an open session does not   *)
(* leave search() as an exception: search() returns the empty list.        *)
C12_ConnErrorGivesEmpty ==
    (Ended /\ Searched /\ exc = "socket.error") => (outcome = "return" /\ result = <<>>)


(* C13 as stated: the second construction happens only after the           *)
(* supervisor has spawned the backend and slept 5 units.                   *)
C13_RetryAfterSpawn ==
    attempt >= 2 => (forks = 1 /\ slept = WarmUp)

(* C13 amended: the supervisor is called at most once and only after the   *)
(* first construction raised socket.error; there are at most two           *)
(* constructions; the second happens only after the supervisor returned,   *)
(* which is after one spawn and a sleep of 5 units when CODESEARCH is not  *)
(* empty, and with no spawn and no sleep when it is the empty string.      *)
C13_AtMostOneRetry ==
    /\ attempt <= 2 /\ forks <= 1
    /\ (pc = "except" => (attempt = 1 /\ path = "unread" /\ forks = 0 /\ slept = 0))
    /\ (path # "unread" => 1 \in sockErr)
    /\ ((pc = "retry" \/ attempt = 2) =>
          /\ 1 \in sockErr
          /\ \/ (path = "codesearch" /\ forks = 1 /\ slept = WarmUp)
             \/ (path = "" /\ forks = 0 /\ slept = 0))

C13_Witness ==
    Ended /\ attempt = 2 /\ path = "codesearch" /\ forks = 1 /\ slept = WarmUp /\ sockErr = {1, 2}


(* C14: wait_ready has returned normally (to __init__ or to search) only   *)
(* with state ready, and the state is ready exactly when a ready record    *)
(* has been dispatched since the session was opened or the query was sent: *)
(* match, done and error records do not make it ready.  The one state that *)
(* is not ready after a ready record is the one line 38 left behind when   *)
(* sendall raised.                                                         *)
WaitReturned ==
    \/ pc \in {"opened", "return"}
    \/ (pc \in {"finally", "done"} /\ Searched /\ outcome = "return")

C14_ReadyOnlyByReady ==
    (logging /\ state # "none") =>
        /\ (state = "ready" => ReadySinceSend)
        /\ ((ReadySinceSend /\ state # "ready") =>
               (state = "search" /\ exc = "socket.error" /\ pc \in {"finally", "done"}))
        /\ (WaitReturned => state = "ready")

C14_Witness ==
    logging /\ pc = "opened" /\ emitted = << <<"e">>, <<"r">> >> /\ state = "ready"


(* C15: the match accumulator is empty whenever no query is in flight:     *)
(* when open has returned and after every normal return of Session.search. *)
C15_EmptyWhenIdle ==
    (pc = "opened" \/ (pc \in {"finally", "done"} /\ Searched /\ outcome = "return")) =>
        matches = <<>>


(* the accumulator after dispatching the records of a list, from empty *)
RECURSIVE Accum(_, _)
Accum(lines, acc) ==
    IF lines = <<>> THEN acc
    ELSE Accum(Tail(lines),
               IF Head(lines) \in {<<"a">>, <<"b">>} THEN Append(acc, BodyOf(Head(lines)[1]))
               ELSE IF Head(lines) = <<"e">> THEN <<>>
               ELSE acc)

(* C18: whenever wait_ready has returned normally the buffer holds no      *)
(* newline: every complete record read so far has been dispatched, those   *)
(* behind a ready included, so a match that follows the ready is in the    *)
(* accumulator and an error that follows it has cleared the accumulator.   *)
C18_DrainsPastReady ==
    (logging /\ pc \in {"opened", "return"}) =>
        /\ NLs(buffer) = {}
        /\ Len(emitted) = Cardinality(NLs(fed))
        /\ matches = Accum(emitted, <<>>)

C18_Witness ==
    /\ logging /\ pc = "opened"
    /\ emitted = << <<"r">>, <<"a">> >>
    /\ matches = <<BodyOf("a")>> /\ buffer = <<>>


(* C16: the process that becomes the backend is never a child of the       *)
(* calling process, and the intermediate processes c1 and c2 end by        *)
(* exiting, never by going back into the caller's code.                    *)
C16_Detached ==
    /\ \A p \in Procs : child[p] = "backend" => ppid[p] # "caller"
    /\ \A p \in {"c1", "c2"} : child[p] # "raised"

(* C19: the process that calls execv becomes the backend or exits, also    *)
(* when execv fails; it never leaves daemonize as a copy of the caller.    *)
C19_OnlyCallerContinues ==
    child["c3"] \in {"none", "l94", "l95", "backend", "exited"}


(* what an object that runs alone holds after the events of a log *)
RECURSIVE Replay(_)
Replay(log) ==
    IF log = <<>> THEN Fresh
    ELSE LET ev == log[Len(log)]
             r == Replay(SubSeq(log, 1, Len(log) - 1))
         IN Logged(CASE ev.kind = "connect" -> SessOpen(r)
                     [] ev.kind = "recv"    -> SessRecv(r, ev.data)
                     [] ev.kind = "send"    -> SessSend(r)
                     [] OTHER               -> SessReturn(r),
                   ev)

C17_NoInterference ==
    [][\A i \in 1..2 : pair'[i] # pair[i] => pair'[3 - i] = pair[3 - i]]_vars

====
